---- MODULE Spec2Model ----
(***************************************************************************)
(* A model of the three command-line scripts of BookS:                     *)
(*   file_scraper.py  (specification Spec)                                 *)
(*   doc2docx.py and docx2md.py  (specification ConvSpec)                  *)
(* Strings are sequences of one-character strings, so that startswith,     *)
(* endswith, basename, splitext and strip are computed as Python computes  *)
(* them. A file is a record [exists, data]; data is a sequence of bytes.   *)
(***************************************************************************)
EXTENDS Integers, Sequences, FiniteSets, TLC

VARIABLES
    pc,            \* position of the scraper process
    url,           \* argv: url
    extensions,    \* argv: -e (a sequence of strings)
    create_folder, \* argv: -c
    overwrite,     \* argv: -o
    folderExists,  \* os.path.exists(project_folder)
    folder0,       \* folderExists when the run started
    files,         \* files_to_download
    idx,           \* number of candidates the for loop has taken so far
    disk,          \* target filename -> file
    disk0,         \* disk when the run started
    tally,         \* download_results
    dl,            \* locals of the running download_file call
    out,           \* tags printed since the for loop took the current candidate
    httpRequests,  \* number of requests.get calls issued
    interruptedAt, \* candidate during which KeyboardInterrupt arrived, or 0
    exc,           \* the exception that ended the process, or "none"
    cscript,       \* conversion: which script runs
    cfiles,        \* conversion: the discovered input files, in order
    coverwrite,    \* conversion: -w
    cverbose,      \* conversion: -v
    cdisk,         \* conversion: output filename -> file
    cdisk0,        \* conversion: cdisk when the run started
    mpc,           \* conversion: position of main
    submitted,     \* conversion: number of inputs handed over so far
    tpc,           \* conversion: input index -> position of its convert call
    existsAtCall,  \* conversion: input index -> os.path.exists(output_file) seen
    spawns,        \* conversion: input index -> number of Popen calls
    runs,          \* conversion: input index -> exit code and stderr of its process
    clog,          \* conversion: set of <<level, message kind, input index>>
    attempts,      \* conversion: input index -> number of convert calls begun
    cinterrupted   \* conversion: KeyboardInterrupt reached main's try block

svars == <<pc, url, extensions, create_folder, overwrite, folderExists, folder0,
           files, idx, disk, disk0, tally, dl, out, httpRequests,
           interruptedAt, exc>>
cvars == <<cscript, cfiles, coverwrite, cverbose, cdisk, cdisk0, mpc, submitted, tpc,
           existsAtCall, spawns, runs, clog, attempts, cinterrupted>>
vars == <<svars, cvars>>

----------------------------------------------------------------------------
(* Bounds *)

\* most anchors on the scraped page
MaxLinks == 2
\* most bytes a response body holds, and the largest Content-Length
MaxBody == 2

(* Program constants *)

\* response.iter_content(1024)
ChunkSize == 1024

----------------------------------------------------------------------------
(* Strings *)

StartsWith(s, p) == Len(s) >= Len(p) /\ SubSeq(s, 1, Len(p)) = p
EndsWith(s, p) == Len(s) >= Len(p) /\ SubSeq(s, Len(s) - Len(p) + 1, Len(s)) = p

\* position of the last "/" of s, 0 when there is none
RECURSIVE LastSlash(_, _)
LastSlash(s, i) == IF i = 0 THEN 0 ELSE IF s[i] = "/" THEN i ELSE LastSlash(s, i - 1)

\* os.path.basename
Basename(s) == SubSeq(s, LastSlash(s, Len(s)) + 1, Len(s))

\* urllib.parse.urljoin, for a base with no path and a relative reference
UrlJoin(base, ref) == base \o <<"/">> \o ref

\* os.path.join
PathJoin(dir, name) == dir \o <<"/">> \o name

Min(a, b) == IF a < b THEN a ELSE b

S_http == <<"h", "t", "t", "p", ":", "/", "/">>
S_https == <<"h", "t", "t", "p", "s", ":", "/", "/">>
S_dot == <<".">>

Urls == { S_http \o <<"h">>, S_https \o <<"h">>,
          <<"f", "t", "p", ":", "/", "/", "h">>, <<"h">> }

Ext_doc == <<".", "d", "o", "c">>
Ext_txt == <<".", "t", "x", "t">>
Ext_bad == <<"d", "o", "c">>
ExtensionLists == { <<Ext_doc>>, <<Ext_doc, Ext_txt>>, <<Ext_bad>>, <<Ext_doc, Ext_bad>> }

Hrefs == { <<"a">> \o Ext_doc, <<"x", "/", "a">> \o Ext_doc, <<"b">> \o Ext_txt }

project_folder == <<"p">>

\* the local target of a link
Filename(link) == PathJoin(project_folder, Basename(link))

Targets == { PathJoin(project_folder, Basename(h)) : h \in Hrefs }

NoFile == [exists |-> FALSE, data |-> <<>>]
OldFile == [exists |-> TRUE, data |-> <<"o">>]

\* sequences over S of length at most n
RECURSIVE SeqsUpTo(_, _)
SeqsUpTo(S, n) ==
    IF n = 0 THEN { <<>> }
    ELSE LET shorter == SeqsUpTo(S, n - 1)
         IN shorter \cup { Append(q, x) : q \in { r \in shorter : Len(r) = n - 1 }, x \in S }

----------------------------------------------------------------------------
(* file_scraper.py: validators *)

valid_url(string) == StartsWith(string, S_http) \/ StartsWith(string, S_https)

\* mutant of valid_extension: the leading dot is not checked
valid_extension_unchecked(string) == TRUE

valid_extension(string) == StartsWith(string, S_dot)

\* parser.parse_args(): type= is applied to url and to each -e value
ArgsAccepted(u, exts) == valid_url(u) /\ \A i \in 1..Len(exts) : valid_extension(exts[i])

\* any(href.endswith(extension) for extension in extensions)
KeptByFilter(href, exts) == \E i \in 1..Len(exts) : EndsWith(href, exts[i])

\* [urljoin(url, href) for href in links if any(...)]
RECURSIVE FilesToDownload(_, _, _)
FilesToDownload(u, links, exts) ==
    IF links = <<>> THEN <<>>
    ELSE (IF KeptByFilter(Head(links), exts) THEN <<UrlJoin(u, Head(links))>> ELSE <<>>)
         \o FilesToDownload(u, Tail(links), exts)

----------------------------------------------------------------------------
(* file_scraper.py: download_file's pieces *)

ZeroTally == [success |-> 0, overwrite |-> 0, skipped |-> 0, error |-> 0]

\* mutant of Bump: the counter is not updated
Bump_dropped(t, key) == t

\* download_results[key] += 1
Bump(t, key) == [t EXCEPT ![key] = @ + 1]

\* mutant of OpenWb: the file is opened with "ab", its old bytes stay
OpenWb_append(f) == [exists |-> TRUE, data |-> f.data]

\* open(filename, "wb")
OpenWb(f) == [exists |-> TRUE, data |-> <<>>]

\* f.write(data)
WriteTo(f, data) == [f EXCEPT !.data = @ \o data]

\* mutant of NotFullyDownloaded: only a short file counts as partial
NotFullyDownloaded_short(size, total) == size < total

\* os.path.getsize(filename) != total_size
NotFullyDownloaded(size, total) == size # total

\* the finally clause's os.remove, for a bound total_size
Cleanup(f, total) ==
    IF f.exists /\ NotFullyDownloaded(Len(f.data), total) THEN NoFile ELSE f

\* int(response.headers.get("content-length", 0)); header -1 stands for absent
TotalSize(header) == IF header = -1 THEN 0 ELSE header

\* mutant of ReturnAfterStream: a replaced file is reported as "overwrite"
ReturnAfterStream_overwrite(existed) == IF existed THEN "overwrite" ELSE "success"

\* return "success", whether or not the target existed
ReturnAfterStream(existed) == "success"

NoDownload ==
    [target |-> <<>>, existed |-> FALSE, bound |-> FALSE, total_size |-> 0,
     header |-> -1, opened |-> FALSE, received |-> <<>>, completed |-> FALSE,
     netfail |-> FALSE, result |-> "none", pending |-> "none"]

Target == dl.target

\* n bytes of a response body
RECURSIVE Bytes(_)
Bytes(n) == IF n = 0 THEN <<>> ELSE <<"n">> \o Bytes(n - 1)

----------------------------------------------------------------------------
(* file_scraper.py: the process *)

ScraperInit ==
    /\ pc = "cmdline"
    /\ url \in Urls
    /\ extensions \in ExtensionLists
    /\ create_folder \in BOOLEAN
    /\ overwrite \in BOOLEAN
    /\ folderExists \in BOOLEAN
    /\ folder0 = folderExists
    /\ files = <<>>
    /\ idx = 0
    /\ disk \in [Targets -> {NoFile, OldFile}]
    /\ (~folderExists => \A t \in Targets : disk[t] = NoFile)
    /\ disk0 = disk
    /\ tally = ZeroTally
    /\ dl = NoDownload
    /\ out = {}
    /\ httpRequests = 0
    /\ interruptedAt = 0
    /\ exc = "none"

ScraperIdle ==
    /\ pc = "idle"
    /\ url = <<>>
    /\ extensions = <<>>
    /\ create_folder = FALSE
    /\ overwrite = FALSE
    /\ folderExists = FALSE
    /\ folder0 = FALSE
    /\ files = <<>>
    /\ idx = 0
    /\ disk = [t \in Targets |-> NoFile]
    /\ disk0 = disk
    /\ tally = ZeroTally
    /\ dl = NoDownload
    /\ out = {}
    /\ httpRequests = 0
    /\ interruptedAt = 0
    /\ exc = "none"

\* parser.parse_args(): an ArgumentTypeError makes argparse exit
ParseArgs ==
    /\ pc = "cmdline"
    /\ IF ArgsAccepted(url, extensions)
       THEN pc' = "main" /\ exc' = exc
       ELSE pc' = "rejected" /\ exc' = "SystemExit"
    /\ UNCHANGED <<url, extensions, create_folder, overwrite, folderExists, folder0,
                   files, idx, disk, disk0, tally, dl, out, httpRequests,
                   interruptedAt, cvars>>

\* download_files: the project folder check
CheckFolder ==
    /\ pc = "main"
    /\ IF folderExists
       THEN pc' = "fetch" /\ UNCHANGED <<folderExists, exc>>
       ELSE IF create_folder
            THEN pc' = "fetch" /\ folderExists' = TRUE /\ exc' = exc
            ELSE pc' = "crashed" /\ exc' = "FileNotFoundError" /\ UNCHANGED folderExists
    /\ UNCHANGED <<url, extensions, create_folder, overwrite, folder0, files, idx, disk,
                   disk0, tally, dl, out, httpRequests, interruptedAt, cvars>>

\* download_files: the page is fetched and its links filtered
FetchPage ==
    /\ pc = "fetch"
    /\ httpRequests' = httpRequests + 1
    /\ \E links \in SeqsUpTo(Hrefs, MaxLinks) :
          files' = FilesToDownload(url, links, extensions)
    /\ tally' = ZeroTally
    /\ pc' = "loop"
    /\ UNCHANGED <<url, extensions, create_folder, overwrite, folderExists, folder0, idx,
                   disk, disk0, dl, out, interruptedAt, exc, cvars>>

\* download_files: requests.get(url) raises, nothing catches it
FetchPageFails ==
    /\ pc = "fetch"
    /\ httpRequests' = httpRequests + 1
    /\ pc' = "crashed"
    /\ exc' = "RequestException"
    /\ UNCHANGED <<url, extensions, create_folder, overwrite, folderExists, folder0,
                   files, idx, disk, disk0, tally, dl, out, interruptedAt, cvars>>

\* download_files: the for loop takes the next candidate and calls download_file
NextCandidate ==
    /\ pc = "loop"
    /\ idx < Len(files)
    /\ idx' = idx + 1
    /\ dl' = [NoDownload EXCEPT !.target = Filename(files[idx + 1])]
    /\ out' = {}
    /\ pc' = "df_check"
    /\ UNCHANGED <<url, extensions, create_folder, overwrite, folderExists, folder0,
                   files, disk, disk0, tally, httpRequests, interruptedAt, exc, cvars>>

\* download_file: the existence check
DfCheck ==
    /\ pc = "df_check"
    /\ IF disk[Target].exists
       THEN IF overwrite
            THEN /\ out' = out \cup {"Overwriting"}
                 /\ dl' = [dl EXCEPT !.existed = TRUE]
                 /\ pc' = "df_get"
            ELSE /\ out' = out \cup {"Skipping"}
                 /\ dl' = [dl EXCEPT !.existed = TRUE, !.result = "skipped"]
                 /\ pc' = "df_ret"
       ELSE pc' = "df_get" /\ UNCHANGED <<out, dl>>
    /\ UNCHANGED <<url, extensions, create_folder, overwrite, folderExists, folder0,
                   files, idx, disk, disk0, tally, httpRequests, interruptedAt,
                   exc, cvars>>

\* download_file: requests.get answers, total_size is bound
DfGet ==
    /\ pc = "df_get"
    /\ httpRequests' = httpRequests + 1
    /\ \E header \in -1..MaxBody :
          dl' = [dl EXCEPT !.header = header, !.total_size = TotalSize(header),
                           !.bound = TRUE]
    /\ pc' = "df_open"
    /\ UNCHANGED <<url, extensions, create_folder, overwrite, folderExists, folder0,
                   files, idx, disk, disk0, tally, out, interruptedAt, exc, cvars>>

\* download_file: requests.get raises a RequestException, total_size stays unbound
DfGetFails ==
    /\ pc = "df_get"
    /\ httpRequests' = httpRequests + 1
    /\ dl' = [dl EXCEPT !.netfail = TRUE, !.result = "error", !.pending = "return"]
    /\ out' = out \cup {"Error"}
    /\ pc' = "df_finally"
    /\ UNCHANGED <<url, extensions, create_folder, overwrite, folderExists, folder0,
                   files, idx, disk, disk0, tally, interruptedAt, exc, cvars>>

\* download_file: open(filename, "wb")
DfOpen ==
    /\ pc = "df_open"
    /\ disk' = [disk EXCEPT ![Target] = OpenWb(@)]
    /\ dl' = [dl EXCEPT !.opened = TRUE]
    /\ pc' = "df_stream"
    /\ UNCHANGED <<url, extensions, create_folder, overwrite, folderExists, folder0,
                   files, idx, disk0, tally, out, httpRequests, interruptedAt,
                   exc, cvars>>

\* download_file: iter_content yields a chunk, which is written
DfChunk ==
    /\ pc = "df_stream"
    /\ \E n \in 1..Min(ChunkSize, MaxBody - Len(dl.received)) :
          /\ disk' = [disk EXCEPT ![Target] = WriteTo(@, Bytes(n))]
          /\ dl' = [dl EXCEPT !.received = @ \o Bytes(n)]
    /\ UNCHANGED <<pc, url, extensions, create_folder, overwrite, folderExists, folder0,
                   files, idx, disk0, tally, out, httpRequests, interruptedAt,
                   exc, cvars>>

\* download_file: the stream ends, the file is closed, "success" is to be returned
DfStreamEnd ==
    /\ pc = "df_stream"
    /\ dl' = [dl EXCEPT !.completed = TRUE, !.result = ReturnAfterStream(dl.existed),
                     !.pending = "return"]
    /\ pc' = "df_finally"
    /\ UNCHANGED <<url, extensions, create_folder, overwrite, folderExists, folder0,
                   files, idx, disk, disk0, tally, out, httpRequests,
                   interruptedAt, exc, cvars>>

\* download_file: iter_content raises a RequestException, the except clause runs
DfStreamFails ==
    /\ pc = "df_stream"
    /\ dl' = [dl EXCEPT !.netfail = TRUE, !.result = "error", !.pending = "return"]
    /\ out' = out \cup {"Error"}
    /\ pc' = "df_finally"
    /\ UNCHANGED <<url, extensions, create_folder, overwrite, folderExists, folder0,
                   files, idx, disk, disk0, tally, httpRequests, interruptedAt,
                   exc, cvars>>

\* download_file: the finally clause, then the pending return or exception
DfFinally ==
    /\ pc = "df_finally"
    /\ IF disk[Target].exists /\ ~dl.bound
       THEN \* total_size is read unbound: UnboundLocalError replaces what was pending
            /\ pc' = "crashed"
            /\ exc' = "UnboundLocalError"
            /\ UNCHANGED <<disk, out>>
       ELSE /\ disk' = [disk EXCEPT ![Target] = Cleanup(@, dl.total_size)]
            /\ out' = IF disk'[Target] # disk[Target]
                      THEN out \cup {"Deleted"} ELSE out
            /\ pc' = IF dl.pending = "return" THEN "df_ret" ELSE "interrupted"
            /\ exc' = exc
    /\ UNCHANGED <<url, extensions, create_folder, overwrite, folderExists, folder0,
                   files, idx, disk0, tally, dl, httpRequests, interruptedAt, cvars>>

\* download_files: download_results[result] += 1
DfReturn ==
    /\ pc = "df_ret"
    /\ tally' = Bump(tally, dl.result)
    /\ dl' = NoDownload
    /\ pc' = "loop"
    /\ UNCHANGED <<url, extensions, create_folder, overwrite, folderExists, folder0,
                   files, idx, disk, disk0, out, httpRequests, interruptedAt,
                   exc, cvars>>

\* KeyboardInterrupt in download_file before its try statement, or in
\* download_files between download_file's return and the tally update
InterruptOutsideInnerTry ==
    /\ pc \in {"df_check", "df_ret"}
    /\ interruptedAt = 0
    /\ interruptedAt' = idx
    /\ dl' = [dl EXCEPT !.pending = "interrupt"]
    /\ pc' = "interrupted"
    /\ UNCHANGED <<url, extensions, create_folder, overwrite, folderExists, folder0,
                   files, idx, disk, disk0, tally, out, httpRequests, exc, cvars>>

\* KeyboardInterrupt inside download_file's try statement: the with statement
\* closes the file and the finally clause runs before it propagates
InterruptInTry ==
    /\ pc \in {"df_get", "df_open", "df_stream"}
    /\ interruptedAt = 0
    /\ interruptedAt' = idx
    /\ dl' = [dl EXCEPT !.pending = "interrupt"]
    /\ pc' = "df_finally"
    /\ UNCHANGED <<url, extensions, create_folder, overwrite, folderExists, folder0,
                   files, idx, disk, disk0, tally, out, httpRequests, exc, cvars>>

\* KeyboardInterrupt in the for statement or the filename assignment, which no
\* try statement covers
InterruptInLoopHead ==
    /\ pc = "loop"
    /\ idx < Len(files)
    /\ interruptedAt = 0
    /\ interruptedAt' = idx + 1
    /\ pc' = "crashed"
    /\ exc' = "KeyboardInterrupt"
    /\ UNCHANGED <<url, extensions, create_folder, overwrite, folderExists, folder0,
                   files, idx, disk, disk0, tally, dl, out, httpRequests, cvars>>

\* download_files: except KeyboardInterrupt
HandleInterrupt ==
    /\ pc = "interrupted"
    /\ disk' = [disk EXCEPT ![Target] = NoFile]
    /\ out' = IF disk[Target].exists
              THEN out \cup {"Interrupted", "Deleted"}
              ELSE out \cup {"Interrupted"}
    /\ tally' = Bump(tally, "error")
    /\ pc' = "tally"
    /\ UNCHANGED <<url, extensions, create_folder, overwrite, folderExists, folder0,
                   files, idx, disk0, dl, httpRequests, interruptedAt, exc, cvars>>

\* download_files: the final print
PrintTally ==
    /\ pc = "tally" \/ (pc = "loop" /\ idx = Len(files))
    /\ out' = out \cup {"Download Results"}
    /\ pc' = "done"
    /\ UNCHANGED <<url, extensions, create_folder, overwrite, folderExists, folder0,
                   files, idx, disk, disk0, tally, dl, httpRequests, interruptedAt,
                   exc, cvars>>

----------------------------------------------------------------------------
(* doc2docx.py and docx2md.py *)

\* most input files the source directory holds
MaxInputs == 2

Ext_docx == <<".", "d", "o", "c", "x">>
Ext_md == <<".", "m", "d">>

source_dir == <<"s">>
output_dir == <<"o">>

\* what glob can find: "*.doc" in the source directory; "**/*.docx" below it
DocList ==
    << PathJoin(source_dir, <<"a">> \o Ext_doc), PathJoin(source_dir, <<"b">> \o Ext_doc),
       PathJoin(source_dir, <<"c">> \o Ext_doc) >>
DocPaths == { DocList[k] : k \in DOMAIN DocList }
DocxPaths ==
    { PathJoin(source_dir, <<"a">> \o Ext_docx),
      PathJoin(source_dir, <<"x", "/", "a">> \o Ext_docx),
      PathJoin(source_dir, <<"b">> \o Ext_docx) }

\* position of the last "." of s after its first character, 0 when there is none
RECURSIVE LastDot(_, _)
LastDot(s, i) == IF i <= 1 THEN 0 ELSE IF s[i] = "." THEN i ELSE LastDot(s, i - 1)

\* os.path.splitext(name)[0]
SplitExtRoot(name) ==
    LET d == LastDot(name, Len(name)) IN IF d = 0 THEN name ELSE SubSeq(name, 1, d - 1)

\* os.path.join(output, os.path.splitext(os.path.basename(f))[0] + ext)
OutputFile(f, ext) == PathJoin(output_dir, SplitExtRoot(Basename(f)) \o ext)

OutExt == IF cscript = "doc2docx" THEN Ext_docx ELSE Ext_md
OutOf(i) == OutputFile(cfiles[i], OutExt)

Whitespace == {" ", "\n", "\t", "\r"}

\* bytes.lstrip(), bytes.rstrip(), bytes.strip()
RECURSIVE LStrip(_)
LStrip(b) == IF b # <<>> /\ Head(b) \in Whitespace THEN LStrip(Tail(b)) ELSE b
RECURSIVE RStrip(_)
RStrip(b) ==
    IF b # <<>> /\ b[Len(b)] \in Whitespace THEN RStrip(SubSeq(b, 1, Len(b) - 1)) ELSE b
Strip(b) == RStrip(LStrip(b))

\* a bytes object is true when it is not empty
Truthy(b) == b # <<>>

\* what the external process can leave
Stderrs == { <<>>, <<"\n">>, <<"E", "\n">> }
Stdouts == { <<>>, <<"c">> }
ReturnCodes == {0, 1}

NotRun == [ran |-> FALSE, rc |-> 0, stderr |-> <<>>]
Converted == [exists |-> TRUE, data |-> <<"c">>]

\* logging.basicConfig(level=...): doc2docx INFO or WARNING, docx2md DEBUG or INFO
LevelNo(level) ==
    CASE level = "DEBUG" -> 10 [] level = "INFO" -> 20 [] level = "WARNING" -> 30
      [] OTHER -> 40
ConfiguredLevel(script, verbose) ==
    IF script = "doc2docx" THEN (IF verbose THEN "INFO" ELSE "WARNING")
    ELSE (IF verbose THEN "DEBUG" ELSE "INFO")

\* logging.<level>(message): the record is written when the level is enabled
Log(log, script, verbose, level, kind, i) ==
    IF LevelNo(level) >= LevelNo(ConfiguredLevel(script, verbose))
    THEN log \cup { <<level, kind, i>> } ELSE log

\* mutant of SkipsExisting: the overwrite flag is not read
SkipsExisting_noflag(exists, ow) == exists

\* convert_to_docx / convert_to_md: whether the existing output stops the call
SkipsExisting(exists, ow) == exists /\ ~ow

\* mutant of DocxFailed: stderr is not stripped before the test
DocxFailed_nostrip(stderr) == Truthy(stderr)

\* convert_to_docx: the stderr test that ends the call without "Converted"
DocxFailed(stderr) == Truthy(stderr) /\ Truthy(Strip(stderr))

\* convert_to_md: the exit code test
MdFailed(rc) == rc # 0

\* the records convert_to_docx logs after communicate()
DocxLogAfter(log, verbose, i, stdout, r) ==
    LET l1 == IF Truthy(stdout) THEN Log(log, "doc2docx", verbose, "INFO", "Output", i)
              ELSE log
        l2 == IF Truthy(r.stderr) THEN Log(l1, "doc2docx", verbose, "ERROR", "Error", i)
              ELSE l1
    IN IF DocxFailed(r.stderr)
       THEN Log(l2, "doc2docx", verbose, "ERROR", "Failed", i)
       ELSE Log(l2, "doc2docx", verbose, "INFO", "Converted", i)

\* the records convert_to_md logs after communicate()
MdLogAfter(log, verbose, i, r) ==
    IF MdFailed(r.rc)
    THEN Log(log, "docx2md", verbose, "ERROR", "Failed", i)
    ELSE LET l1 == IF verbose THEN Log(log, "docx2md", verbose, "DEBUG", "Output", i)
                   ELSE log
         IN Log(l1, "docx2md", verbose, "INFO", "Converted", i)

Inputs == 1..Len(cfiles)
Ended(i) == tpc[i] \in {"skipped", "finished", "raised"}

\* sequences of distinct elements of S, of length at most n
Distinct(S, n) == { q \in SeqsUpTo(S, n) : \A i, j \in 1..Len(q) : i # j => q[i] # q[j] }

\* glob.glob's results. Its order is the directory's; for doc2docx, whose calls
\* run side by side on interchangeable names, one order per set of files is listed
DocOrder(f) == CHOOSE k \in DOMAIN DocList : DocList[k] = f
GlobResults(script) ==
    IF script = "doc2docx"
    THEN { q \in Distinct(DocPaths, MaxInputs) :
             \A i, j \in 1..Len(q) : i < j => DocOrder(q[i]) < DocOrder(q[j]) }
    ELSE Distinct(DocxPaths, MaxInputs)

ConvInit ==
    /\ cscript \in {"doc2docx", "docx2md"}
    /\ cfiles \in GlobResults(cscript)
    /\ coverwrite \in BOOLEAN
    /\ cverbose \in BOOLEAN
    /\ cdisk \in [{ OutputFile(f, OutExt) :
                       f \in (IF cscript = "doc2docx" THEN DocPaths ELSE DocxPaths) }
                   -> {NoFile, OldFile}]
    /\ \A t \in DOMAIN cdisk : (\A i \in Inputs : OutOf(i) # t) => cdisk[t] = NoFile
    /\ cdisk0 = cdisk
    /\ mpc = "start"
    /\ submitted = 0
    /\ tpc = [i \in Inputs |-> "new"]
    /\ existsAtCall = [i \in Inputs |-> FALSE]
    /\ spawns = [i \in Inputs |-> 0]
    /\ runs = [i \in Inputs |-> NotRun]
    /\ clog = {}
    /\ attempts = [i \in Inputs |-> 0]
    /\ cinterrupted = FALSE

\* doc2docx main: no .doc file is found
D2dNoFiles ==
    /\ cscript = "doc2docx"
    /\ mpc = "start"
    /\ cfiles = <<>>
    /\ clog' = Log(clog, cscript, cverbose, "ERROR", "NoFiles", 0)
    /\ mpc' = "returned"
    /\ UNCHANGED <<cscript, cfiles, coverwrite, cverbose, cdisk, cdisk0, submitted, tpc,
                   existsAtCall, spawns, runs, attempts, cinterrupted, svars>>

\* doc2docx main: executor.submit for the next file of the loop
D2dSubmit ==
    /\ cscript = "doc2docx"
    /\ mpc \in {"start", "submit"}
    /\ submitted < Len(cfiles)
    /\ submitted' = submitted + 1
    /\ tpc' = [tpc EXCEPT ![submitted + 1] = "queued"]
    /\ mpc' = "submit"
    /\ UNCHANGED <<cscript, cfiles, coverwrite, cverbose, cdisk, cdisk0, existsAtCall,
                   spawns, runs, clog, attempts, cinterrupted, svars>>

\* doc2docx main: KeyboardInterrupt in the try block, executor.shutdown(wait=False)
D2dInterrupt ==
    /\ cscript = "doc2docx"
    /\ mpc \in {"start", "submit"}
    /\ clog' = Log(clog, cscript, cverbose, "INFO", "Interrupted", 0)
    /\ cinterrupted' = TRUE
    /\ mpc' = "returned"
    /\ UNCHANGED <<cscript, cfiles, coverwrite, cverbose, cdisk, cdisk0, submitted, tpc,
                   existsAtCall, spawns, runs, attempts, svars>>

\* mutant of ShutdownMayReturn: shutdown(wait=False), as in the interrupt branch
ShutdownMayReturn_nowait == TRUE

\* executor.shutdown(wait=True) joins the workers: every submitted call has ended
ShutdownMayReturn == \A i \in 1..submitted : Ended(i)

\* doc2docx main: the else clause, executor.shutdown(wait=True) returns once
\* every submitted call has ended
D2dShutdownWait ==
    /\ cscript = "doc2docx"
    /\ mpc = "submit"
    /\ submitted = Len(cfiles)
    /\ ShutdownMayReturn
    /\ mpc' = "returned"
    /\ UNCHANGED <<cscript, cfiles, coverwrite, cverbose, cdisk, cdisk0, submitted, tpc,
                   existsAtCall, spawns, runs, clog, attempts, cinterrupted, svars>>

\* docx2md main: shutil.which found no pandoc and -p was not given
MdNoPandoc ==
    /\ cscript = "docx2md"
    /\ mpc = "start"
    /\ clog' = Log(clog, cscript, cverbose, "ERROR", "NoPandoc", 0)
    /\ mpc' = "returned"
    /\ UNCHANGED <<cscript, cfiles, coverwrite, cverbose, cdisk, cdisk0, submitted, tpc,
                   existsAtCall, spawns, runs, attempts, cinterrupted, svars>>

\* docx2md main: the for loop calls convert_to_md for the next file, once the
\* previous call has returned
MdCallNext ==
    /\ cscript = "docx2md"
    /\ mpc \in {"start", "loop"}
    /\ submitted < Len(cfiles)
    /\ \A i \in 1..submitted : Ended(i)
    /\ submitted' = submitted + 1
    /\ tpc' = [tpc EXCEPT ![submitted + 1] = "queued"]
    /\ mpc' = "loop"
    /\ UNCHANGED <<cscript, cfiles, coverwrite, cverbose, cdisk, cdisk0, existsAtCall,
                   spawns, runs, clog, attempts, cinterrupted, svars>>

\* docx2md main: the for loop is exhausted
MdReturn ==
    /\ cscript = "docx2md"
    /\ mpc \in {"start", "loop"}
    /\ submitted = Len(cfiles)
    /\ \A i \in Inputs : Ended(i)
    /\ mpc' = "returned"
    /\ UNCHANGED <<cscript, cfiles, coverwrite, cverbose, cdisk, cdisk0, submitted, tpc,
                   existsAtCall, spawns, runs, clog, attempts, cinterrupted, svars>>

\* convert_to_docx: output_file and the existence check
DocxCheck(i) ==
    /\ cscript = "doc2docx"
    /\ tpc[i] = "queued"
    /\ attempts' = [attempts EXCEPT ![i] = @ + 1]
    /\ existsAtCall' = [existsAtCall EXCEPT ![i] = cdisk[OutOf(i)].exists]
    /\ IF cdisk[OutOf(i)].exists
       THEN IF SkipsExisting(TRUE, coverwrite)
            THEN /\ clog' = Log(clog, cscript, cverbose, "INFO", "Skipping", i)
                 /\ tpc' = [tpc EXCEPT ![i] = "skipped"]
            ELSE /\ clog' = Log(clog, cscript, cverbose, "INFO", "Overwriting", i)
                 /\ tpc' = [tpc EXCEPT ![i] = "spawn"]
       ELSE /\ clog' = clog
            /\ tpc' = [tpc EXCEPT ![i] = "spawn"]
    /\ UNCHANGED <<cscript, cfiles, coverwrite, cverbose, cdisk, cdisk0, mpc, submitted,
                   spawns, runs, cinterrupted, svars>>

\* convert_to_md: output_file and the existence check
MdCheck(i) ==
    /\ cscript = "docx2md"
    /\ tpc[i] = "queued"
    /\ attempts' = [attempts EXCEPT ![i] = @ + 1]
    /\ existsAtCall' = [existsAtCall EXCEPT ![i] = cdisk[OutOf(i)].exists]
    /\ IF SkipsExisting(cdisk[OutOf(i)].exists, coverwrite)
       THEN /\ clog' = Log(clog, cscript, cverbose, "INFO", "Skipping", i)
            /\ tpc' = [tpc EXCEPT ![i] = "skipped"]
       ELSE /\ clog' = Log(clog, cscript, cverbose, "DEBUG", "Converting", i)
            /\ tpc' = [tpc EXCEPT ![i] = "spawn"]
    /\ UNCHANGED <<cscript, cfiles, coverwrite, cverbose, cdisk, cdisk0, mpc, submitted,
                   spawns, runs, cinterrupted, svars>>

\* subprocess.Popen starts the external process
Popen(i) ==
    /\ tpc[i] = "spawn"
    /\ spawns' = [spawns EXCEPT ![i] = @ + 1]
    /\ tpc' = [tpc EXCEPT ![i] = "running"]
    /\ UNCHANGED <<cscript, cfiles, coverwrite, cverbose, cdisk, cdisk0, mpc, submitted,
                   existsAtCall, runs, clog, attempts, cinterrupted, svars>>

\* subprocess.Popen raises OSError (the executable cannot be run): convert_to_md
\* catches and logs it, convert_to_docx lets it end the pool's call
PopenRaises(i) ==
    /\ tpc[i] = "spawn"
    /\ spawns' = [spawns EXCEPT ![i] = @ + 1]
    /\ IF cscript = "docx2md"
       THEN /\ clog' = Log(clog, cscript, cverbose, "ERROR", "Failed", i)
            /\ tpc' = [tpc EXCEPT ![i] = "finished"]
       ELSE /\ clog' = clog
            /\ tpc' = [tpc EXCEPT ![i] = "raised"]
    /\ UNCHANGED <<cscript, cfiles, coverwrite, cverbose, cdisk, cdisk0, mpc, submitted,
                   existsAtCall, runs, attempts, cinterrupted, svars>>

\* process.communicate() returns: the external process has ended, having
\* written its output file or not; the call logs the outcome and returns
Communicate(i) ==
    /\ tpc[i] = "running"
    /\ \E rc \in ReturnCodes, so \in Stdouts, se \in Stderrs, w \in BOOLEAN :
          LET r == [ran |-> TRUE, rc |-> rc, stderr |-> se]
          IN /\ runs' = [runs EXCEPT ![i] = r]
             /\ cdisk' = IF w THEN [cdisk EXCEPT ![OutOf(i)] = Converted] ELSE cdisk
             /\ clog' = IF cscript = "doc2docx"
                        THEN DocxLogAfter(clog, cverbose, i, so, r)
                        ELSE MdLogAfter(clog, cverbose, i, r)
    /\ tpc' = [tpc EXCEPT ![i] = "finished"]
    /\ UNCHANGED <<cscript, cfiles, coverwrite, cverbose, cdisk0, mpc, submitted,
                   existsAtCall, spawns, attempts, cinterrupted, svars>>

ConvNext ==
    \/ D2dNoFiles
    \/ D2dSubmit
    \/ D2dInterrupt
    \/ D2dShutdownWait
    \/ MdNoPandoc
    \/ MdCallNext
    \/ MdReturn
    \/ \E i \in Inputs : DocxCheck(i)
    \/ \E i \in Inputs : MdCheck(i)
    \/ \E i \in Inputs : Popen(i)
    \/ \E i \in Inputs : PopenRaises(i)
    \/ \E i \in Inputs : Communicate(i)

ConvStart == ConvInit /\ ScraperIdle

ConvSpec == ConvStart /\ [][ConvNext]_vars

ConvIdle ==
    /\ cscript = "none"
    /\ cfiles = <<>>
    /\ coverwrite = FALSE
    /\ cverbose = FALSE
    /\ cdisk = <<>>
    /\ cdisk0 = <<>>
    /\ mpc = "idle"
    /\ submitted = 0
    /\ tpc = <<>>
    /\ existsAtCall = <<>>
    /\ spawns = <<>>
    /\ runs = <<>>
    /\ clog = {}
    /\ attempts = <<>>
    /\ cinterrupted = FALSE

Init == ScraperInit /\ ConvIdle

Next ==
    \/ ParseArgs
    \/ CheckFolder
    \/ FetchPage
    \/ FetchPageFails
    \/ NextCandidate
    \/ DfCheck
    \/ DfGet
    \/ DfGetFails
    \/ DfOpen
    \/ DfChunk
    \/ DfStreamEnd
    \/ DfStreamFails
    \/ DfFinally
    \/ DfReturn
    \/ InterruptOutsideInnerTry
    \/ InterruptInTry
    \/ InterruptInLoopHead
    \/ HandleInterrupt
    \/ PrintTally

Spec == Init /\ [][Next]_vars

----------------------------------------------------------------------------
(* The claims *)

TallySum == tally.success + tally.overwrite + tally.skipped + tally.error
FileOf(data) == [exists |-> TRUE, data |-> data]
Returned == pc = "df_ret"
Ended_download_files == pc \in {"done", "crashed"}

\* C1 (as stated): with overwrite=false, every candidate's target that existed
\* when the run started still exists with the same content once download_files
\* has ended, whether it ended normally, after a network error or after a
\* KeyboardInterrupt.
C1_ExistingUntouched ==
    (Ended_download_files /\ ~overwrite) =>
        \A i \in 1..Len(files) :
            disk0[Filename(files[i])].exists =>
                disk[Filename(files[i])] = disk0[Filename(files[i])]

\* C2 (as stated): with overwrite=true, after download_file returns for a
\* candidate whose target existed, the target exists and holds the newly
\* downloaded body, whatever the outcome of the request.
C2_AlwaysReplaced ==
    (Returned /\ overwrite /\ dl.existed) => disk[Target] = FileOf(dl.received)

\* C2 (amended): with overwrite=true, after download_file returns for a
\* candidate whose target existed, the old content is gone: the target holds
\* exactly the bytes received when their number equals the integer
\* Content-Length (0 when absent), and does not exist otherwise.
C2_ReplacedOrDeleted ==
    (Returned /\ overwrite /\ dl.existed) =>
        /\ dl.opened
        /\ disk[Target] = IF Len(dl.received) = TotalSize(dl.header)
                          THEN FileOf(dl.received) ELSE NoFile

C2_Witness ==
    /\ Returned /\ overwrite /\ dl.existed /\ dl.completed
    /\ dl.received # <<>>
    /\ disk0[Target] = OldFile
    /\ disk[Target] = FileOf(dl.received)

\* C3 (as stated): a download interrupted before completion, by a
\* RequestException after which download_file returns or by a KeyboardInterrupt
\* once the target was opened, leaves no file at the target when download_files
\* has finished handling it, whatever the Content-Length and the number of
\* chunks written.
C3_NoPartialFile ==
    (\/ Returned /\ dl.netfail
     \/ pc = "tally" /\ dl.pending = "interrupt" /\ dl.opened /\ ~dl.completed)
        => ~disk[Target].exists

\* C4: after download_file returns for a download whose stream ran to
\* completion, if the number of bytes written differs from the integer
\* Content-Length (0 when absent), the target does not exist.
C4_MismatchDeleted ==
    (Returned /\ dl.completed /\ Len(dl.received) # TotalSize(dl.header))
        => ~disk[Target].exists

C4_Witness ==
    /\ Returned /\ dl.completed
    /\ Len(dl.received) > TotalSize(dl.header)
    /\ dl.header >= 1
    /\ ~disk[Target].exists

\* C5 (as stated): whenever the final tally is printed, the four counters sum
\* to len(files_to_download).
C5_TallyCountsAll == pc = "done" => TallySum = Len(files)

\* C5 (amended): whenever the final tally is printed, the four counters sum to
\* the number of candidates download_file was called for; that is
\* len(files_to_download) unless a KeyboardInterrupt ended the batch, and then
\* it is the position of the interrupted candidate.
C5_TallyCountsTaken ==
    pc = "done" =>
        /\ TallySum = idx
        /\ idx = IF interruptedAt = 0 THEN Len(files) ELSE interruptedAt

C5_Witness ==
    /\ pc = "done"
    /\ interruptedAt = 1
    /\ Len(files) = 2
    /\ TallySum = 1

\* C6: a command line whose URL starts with neither "http://" nor "https://",
\* or with an extension that does not start with a dot, is rejected while the
\* arguments are parsed: download_files is never entered, no HTTP request is
\* issued, the folder is not created and no file is written or deleted.
C6_RejectedBeforeActivity ==
    (\/ ~(StartsWith(url, S_http) \/ StartsWith(url, S_https))
     \/ \E i \in 1..Len(extensions) : ~StartsWith(extensions[i], S_dot))
        => /\ pc \in {"cmdline", "rejected"}
           /\ httpRequests = 0
           /\ folderExists = folder0
           /\ disk = disk0

C6_Witness ==
    /\ pc = "rejected"
    /\ StartsWith(url, S_http)
    /\ \E i \in 1..Len(extensions) : ~StartsWith(extensions[i], S_dot)
    /\ ~folder0 /\ create_folder

\* C7 (as stated): when every run of the external tool so far exited with a
\* non-zero code, every input whose conversion was attempted and has returned
\* has a logged failure and none is logged as converted.
C7_FailingToolLogsFailure ==
    (\A i \in Inputs : runs[i].ran => runs[i].rc # 0) =>
        \A i \in Inputs :
            (tpc[i] = "finished" /\ runs[i].ran) =>
                /\ <<"ERROR", "Failed", i>> \in clog
                /\ <<"INFO", "Converted", i>> \notin clog

\* C8: in both conversion scripts, a call that finds its output present with
\* overwrite unset ends without a Popen and without a run of the tool, and the
\* output keeps the content it had (the run's initial content, unless another
\* input with the same output name had it converted); every other call that
\* has ended made exactly one Popen; no call makes more.
C8_SkipOrSpawnOnce ==
    \A i \in Inputs :
        /\ spawns[i] <= 1
        /\ Ended(i) =>
              IF existsAtCall[i] /\ ~coverwrite
              THEN /\ tpc[i] = "skipped" /\ spawns[i] = 0 /\ ~runs[i].ran
                   /\ cdisk[OutOf(i)].exists
                   /\ (\A j \in Inputs : OutOf(j) = OutOf(i) => ~runs[j].ran)
                         => cdisk[OutOf(i)] = cdisk0[OutOf(i)]
              ELSE tpc[i] # "skipped" /\ spawns[i] = 1

C8_Witness ==
    \E i, j \in Inputs :
        /\ tpc[i] = "skipped" /\ existsAtCall[i] /\ spawns[i] = 0
        /\ cdisk[OutOf(i)] = cdisk0[OutOf(i)]
        /\ tpc[j] = "finished" /\ ~existsAtCall[j] /\ spawns[j] = 1

\* C9 (as stated): a RequestException on a candidate, from requests.get or
\* while streaming, with or without an existing target, is logged, makes
\* download_file return "error" for the tally and does not end the batch.
C9_NetworkFailureContinues ==
    (dl.netfail /\ interruptedAt = 0) =>
        /\ pc \in {"df_finally", "df_ret"}
        /\ dl.result = "error"
        /\ "Error" \in out

\* C10 (as stated): after a KeyboardInterrupt that arrives inside the try
\* statement around the k-th candidate, download_files ends by printing the
\* tally, with no file at the k-th target, the error counter incremented and no
\* candidate after the k-th taken.
C10_InterruptHandled ==
    (interruptedAt > 0 /\ Ended_download_files /\ exc # "KeyboardInterrupt") =>
        /\ pc = "done"
        /\ ~disk[Filename(files[interruptedAt])].exists
        /\ idx = interruptedAt
        /\ tally.error >= 1
        /\ TallySum = idx

\* C11 (as stated): whenever download_file returns "success", the target file
\* exists and its size is the integer Content-Length (0 when absent): a
\* download whose file was deleted for a size mismatch is not a success.
C11_SuccessMeansFileKept ==
    (Returned /\ dl.result = "success") =>
        /\ disk[Target].exists
        /\ Len(disk[Target].data) = TotalSize(dl.header)

\* C14: the overwrite counter of the tally is 0 in every reachable state; a
\* download that replaces an existing file is counted under success.
C14_OverwriteNeverCounted ==
    /\ tally.overwrite = 0
    /\ (Returned /\ dl.existed /\ dl.completed) => dl.result = "success"

C14_Witness ==
    /\ pc = "loop"
    /\ overwrite
    /\ tally = [ZeroTally EXCEPT !.success = 1]
    /\ \E t \in Targets : disk0[t] = OldFile /\ disk[t] = FileOf(Bytes(1))

\* the doc2docx calls whose process has ended and whose call has returned
DocxReturned == { i \in Inputs : cscript = "doc2docx" /\ runs[i].ran /\ tpc[i] = "finished" }
LoggedFailed(i) == <<"ERROR", "Failed", i>> \in clog
LoggedConverted(i) == <<"INFO", "Converted", i>> \in clog

C13_PoolRunsEachOnce ==
    (cscript = "doc2docx" /\ cfiles # <<>> /\ ~cinterrupted) =>
        /\ \A i \in Inputs : attempts[i] <= 1 /\ (attempts[i] = 1 => i <= submitted)
        /\ mpc = "returned" =>
              /\ submitted = Len(cfiles)
              /\ \A i \in Inputs :
                    /\ attempts[i] = 1
                    /\ tpc[i] \in {"skipped", "finished", "raised"}
        /\ (\E i \in Inputs : tpc[i] = "raised") => mpc \in {"submit", "returned"}

C13_Witness ==
    /\ cscript = "doc2docx" /\ ~cinterrupted /\ mpc = "returned"
    /\ \E i, j \in Inputs :
          /\ i < j
          /\ tpc[i] = "raised" /\ attempts[i] = 1
          /\ tpc[j] = "finished" /\ attempts[j] = 1 /\ runs[j].ran

====
